---------------------------- MODULE Spec2Model ----------------------------
(***************************************************************************)
(* dragpy: draggable lines, patches and windows on a matplotlib canvas.    *)
(*                                                                         *)
(* The model is one figure canvas with two coordinate frames (axes).  The  *)
(* state is what the library keeps: the artists of each frame in child     *)
(* order, the wrapper objects (_DragObj subclasses), the Window            *)
(* composites and the canvas' callback registry.  Every canvas event       *)
(* (press, motion, release, draw) is one action that runs every handler    *)
(* registered for it, in registration order.                               *)
(*                                                                         *)
(* Coordinates are integers; an absent Python attribute or None is <<>>,   *)
(* a present value v of such an attribute is <<v>>.                        *)
(***************************************************************************)
EXTENDS Integers, Sequences, FiniteSets, TLC

\* ---------------------------------------------------------------- bounds

\* Frame limits: x in 0..MaxX, y in 0..MaxY on both frames.
MaxX == 2

MaxY == 1

\* Longest data series and largest value handed to draglimiter.
MaxLen == 3

MaxVal == 3

\* ---------------------------------------------------------------- basics

Frames == {1, 2}

\* event.inaxes when the pointer is over no frame.
NoAxes == 0

\* Absent attribute / None.
None == <<>>

Some(v) == <<v>>

NoErr == "ok"

Abs(n) == IF n < 0 THEN -n ELSE n

RECURSIVE SeqMin(_)
SeqMin(s) ==
    IF Len(s) = 1 THEN s[1]
    ELSE LET m == SeqMin(Tail(s)) IN IF s[1] < m THEN s[1] ELSE m

RECURSIVE SeqMax(_)
SeqMax(s) ==
    IF Len(s) = 1 THEN s[1]
    ELSE LET m == SeqMax(Tail(s)) IN IF s[1] > m THEN s[1] ELSE m

\* Python str.lower() on the orientation strings the model draws.
Lower(str) ==
    CASE str = "Vertical" -> "vertical"
      [] str = "HORIZONTAL" -> "horizontal"
      [] OTHER -> str

\* ------------------------------------------------------- geometry helpers

\* listmult(A, c)
listmult(A, c) == [i \in 1..Len(A) |-> A[i] * c]

\* A draglimiter that forgets the lower limit: it differs from draglimiter
\* exactly on queries below the least value.
draglimiter_nolow(dataseries, querypoint) ==
    LET maxvalue == SeqMax(dataseries)
    IN  IF querypoint > maxvalue THEN maxvalue ELSE querypoint

\* draglimiter(dataseries, querypoint)
draglimiter(dataseries, querypoint) ==
    LET minvalue == SeqMin(dataseries)
        maxvalue == SeqMax(dataseries)
    IN  IF querypoint > maxvalue THEN maxvalue
        ELSE IF querypoint < minvalue THEN minvalue
        ELSE querypoint

\* axesextent(ax), from the frame's limits.
axesextent(xl, yl) == <<xl[2] - xl[1], yl[2] - yl[1]>>


\* ------------------------------------------------------------------ state

VARIABLES
    xlim,        \* [frame -> <<lo, hi>>]: ax.get_xlim()
    ylim,        \* [frame -> <<lo, hi>>]: ax.get_ylim()
    children,    \* [frame -> sequence of artist ids]: ax.get_children()
    artists,     \* sequence of artist records, indexed by artist id
    objs,        \* sequence of draggable wrapper records, indexed by object id
    windows,     \* sequence of Window records
    callbacks,   \* the canvas' callback registry, in connection order
    raised,      \* the exception that escaped the last call, or NoErr
    todo,        \* the constructor calls the program has still to make
    dataseries,  \* draglimiter's arguments and result, when applied on its own
    querypoint,
    limited

vars == <<xlim, ylim, children, artists, objs, windows, callbacks, raised,
          todo, dataseries, querypoint, limited>>

limvars == <<dataseries, querypoint, limited>>

\* The part of the state the handlers read and write, passed through them.
World == [children |-> children, artists |-> artists, objs |-> objs,
          windows |-> windows, callbacks |-> callbacks, raised |-> NoErr]

\* ---------------------------------------------------------------- artists

Line2D(xd, yd) ==
    [shape |-> "Line2D", url |-> "None", xdata |-> xd, ydata |-> yd,
     xy |-> None, center |-> None, width |-> 0, height |-> 0]

Rectangle(xy, w, h) ==
    [shape |-> "Rectangle", url |-> "None", xdata |-> None, ydata |-> None,
     xy |-> xy, center |-> None, width |-> w, height |-> h]

Ellipse(xy, w, h) ==
    [shape |-> "Ellipse", url |-> "None", xdata |-> None, ydata |-> None,
     xy |-> None, center |-> xy, width |-> w, height |-> h]

Circle(xy, radius) ==
    [shape |-> "Circle", url |-> "None", xdata |-> None, ydata |-> None,
     xy |-> None, center |-> xy, width |-> 2 * radius, height |-> 2 * radius]

Arc(xy, w, h) ==
    [shape |-> "Arc", url |-> "None", xdata |-> None, ydata |-> None,
     xy |-> None, center |-> xy, width |-> w, height |-> h]

Wedge(c, r) ==
    [shape |-> "Wedge", url |-> "None", xdata |-> None, ydata |-> None,
     xy |-> None, center |-> c, width |-> 2 * r, height |-> 2 * r]

RegularPolygon(xy, radius) ==
    [shape |-> "RegularPolygon", url |-> "None", xdata |-> None, ydata |-> None,
     xy |-> xy, center |-> None, width |-> 2 * radius, height |-> 2 * radius]

\* hasattr(artist, 'center')
HasCenter(a) == a.center # None

\* artist.contains(event): the pointer lies on the drawn shape.  A line is the
\* segment its data spans; a Rectangle extends from its corner xy; the other
\* patches are centred on their center (RegularPolygon: on its xy).
contains(a, ev) ==
    CASE a.shape = "Line2D" ->
            /\ SeqMin(a.xdata) <= ev.xdata /\ ev.xdata <= SeqMax(a.xdata)
            /\ SeqMin(a.ydata) <= ev.ydata /\ ev.ydata <= SeqMax(a.ydata)
      [] a.shape = "Rectangle" ->
            /\ a.xy[1] <= ev.xdata /\ ev.xdata <= a.xy[1] + a.width
            /\ a.xy[2] <= ev.ydata /\ ev.ydata <= a.xy[2] + a.height
      [] a.shape = "RegularPolygon" ->
            /\ 2 * Abs(ev.xdata - a.xy[1]) <= a.width
            /\ 2 * Abs(ev.ydata - a.xy[2]) <= a.height
      [] OTHER ->
            /\ 2 * Abs(ev.xdata - a.center[1]) <= a.width
            /\ 2 * Abs(ev.ydata - a.center[2]) <= a.height

\* ax.add_artist(artist): the artist becomes the frame's last child.
add_artist(w, ax, a) ==
    [w EXCEPT !.artists = Append(@, a),
              !.children[ax] = Append(@, Len(w.artists) + 1)]

\* -------------------------------------------------------- callback registry

\* canvas.mpl_connect(signal, owner.handler): connecting a bound method that
\* is already connected to the signal returns its existing connection id, so
\* a connection id stands for the pair (signal, owner).
mpl_connect(cbs, signal, owner) ==
    LET cb == [signal |-> signal, owner |-> owner]
    IN  IF \E i \in 1..Len(cbs) : cbs[i] = cb THEN cbs ELSE Append(cbs, cb)

\* canvas.mpl_disconnect(cid)
mpl_disconnect(cbs, signal, owner) ==
    LET cb == [signal |-> signal, owner |-> owner]
        Keep(c) == c # cb
    IN  SelectSeq(cbs, Keep)

Connected(cbs, signal, owner) ==
    \E i \in 1..Len(cbs) : cbs[i] = [signal |-> signal, owner |-> owner]

\* The owners connected to a signal, in connection order: what the canvas
\* calls when it processes an event of that kind.
Handlers(cbs, signal) ==
    LET Is(c) == c.signal = signal
        sel == SelectSeq(cbs, Is)
    IN  [i \in 1..Len(sel) |-> sel[i].owner]

\* ------------------------------------------------------------------ Window

\* DragLine2D.xdata / DragLine2D.ydata: the wrapped line's data.
xdata(w, o) == w.artists[w.objs[o].myobj].xdata

ydata(w, o) == w.artists[w.objs[o].myobj].ydata

\* A spanpatchdims that takes the low corner from the first edge alone: it
\* differs from spanpatchdims when the first edge is ahead of the second.
spanpatchdims_edge1(w, edge1, edge2) ==
    LET minx == SeqMin(xdata(w, edge1))
        maxx == SeqMax(xdata(w, edge1) \o xdata(w, edge2))
        miny == SeqMin(ydata(w, edge1))
        maxy == SeqMax(ydata(w, edge1) \o ydata(w, edge2))
    IN  << <<minx, miny>>, Abs(maxx - minx), Abs(maxy - miny) >>

\* Window.spanpatchdims(edge1, edge2): <<xy, width, height>>.
spanpatchdims(w, edge1, edge2) ==
    LET minx == SeqMin(xdata(w, edge1) \o xdata(w, edge2))
        maxx == SeqMax(xdata(w, edge1) \o xdata(w, edge2))
        miny == SeqMin(ydata(w, edge1) \o ydata(w, edge2))
        maxy == SeqMax(ydata(w, edge1) \o ydata(w, edge2))
    IN  << <<minx, miny>>, Abs(maxx - minx), Abs(maxy - miny) >>

\* Window.resizespanpatch(event), the Window's draw_event handler.
resizespanpatch(w, win) ==
    LET W == w.windows[win]
        d == spanpatchdims(w, W.edges[1], W.edges[2])
    IN  [w EXCEPT !.artists[W.spanpatch].xy = d[1],
                  !.artists[W.spanpatch].width = d[2],
                  !.artists[W.spanpatch].height = d[3]]

RECURSIVE ProcessDraw(_, _)
ProcessDraw(w, hs) ==
    IF hs = <<>> THEN w
    ELSE ProcessDraw(resizespanpatch(w, Head(hs)), Tail(hs))

\* canvas.draw(): the figure is rendered and every draw_event handler runs.
draw(w) == ProcessDraw(w, Handlers(w.callbacks, "draw_event"))

\* Window.bounds: None when neither branch of the property is taken.
window_bounds(w, win) ==
    LET W == w.windows[win]
        sp == w.artists[W.spanpatch]
    IN  IF W.orientation = "vertical" THEN Some(<<sp.xy[1], sp.xy[1] + sp.width>>)
        ELSE IF W.orientation = "horizontal"
             THEN Some(<<sp.xy[2], sp.xy[2] + sp.height>>)
        ELSE None

\* FixedWindow.bounds
fixedwindow_bounds(w, o) ==
    LET a == w.artists[w.objs[o].myobj]
    IN  IF w.objs[o].orientation = "vertical"
        THEN Some(<<a.xy[1], a.xy[1] + a.width>>)
        ELSE IF w.objs[o].orientation = "horizontal"
             THEN Some(<<a.xy[2], a.xy[2] + a.height>>)
        ELSE None

\* --------------------------------------------------------------- _DragObj

IsLegacy(cls) == cls = "DragLine"

IsLine(cls) == cls \in {"DragLine2D", "DragLine"}

\* A shouldthismove that picks the first firing child, not the last: it
\* differs from shouldthismove when tagged artists overlap at the pointer.
shouldthismove_first(w, o, ev) ==
    LET O == w.objs[o]
        Fires(c) == w.artists[c].url = "dragobj" /\ contains(w.artists[c], ev)
        firingobjs == SelectSeq(w.children[O.parentax], Fires)
    IN  IF ~contains(w.artists[O.myobj], ev) THEN "no"
        ELSE IF firingobjs = <<>> THEN "IndexError"
        ELSE IF firingobjs[1] = O.myobj THEN "yes"
        ELSE "no"

\* A shouldthismove without the tie-break: every artist that contains the
\* event may move.
shouldthismove_any(w, o, ev) ==
    IF contains(w.artists[w.objs[o].myobj], ev) THEN "yes" ELSE "no"

\* A shouldthismove that takes every child of the frame containing the event
\* as a candidate, tagged or not.
shouldthismove_alltags(w, o, ev) ==
    LET O == w.objs[o]
        Fires(c) == contains(w.artists[c], ev)
        firingobjs == SelectSeq(w.children[O.parentax], Fires)
    IN  IF ~contains(w.artists[O.myobj], ev) THEN "no"
        ELSE IF firingobjs[Len(firingobjs)] = O.myobj THEN "yes"
        ELSE "no"

\* _DragObj.shouldthismove(event): "yes", "no", or "IndexError" when no
\* tagged child of the frame contains the event (firingobjs[-1] of []).
shouldthismove(w, o, ev) ==
    LET O == w.objs[o]
        Fires(c) == w.artists[c].url = "dragobj" /\ contains(w.artists[c], ev)
        firingobjs == SelectSeq(w.children[O.parentax], Fires)
    IN  IF ~contains(w.artists[O.myobj], ev) THEN "no"
        ELSE IF firingobjs = <<>> THEN "IndexError"
        ELSE IF firingobjs[Len(firingobjs)] = O.myobj THEN "yes"
        ELSE "no"

\* An on_click that accepts a press over any frame (none excepted): it
\* differs from on_click on a press over another frame at a position that the
\* artist covers in its own frame.
on_click_anyframe(w, o, ev) ==
    LET O == w.objs[o]
        timetomove == shouldthismove(w, o, ev)
    IN  IF ev.inaxes = NoAxes THEN w
        ELSE IF timetomove = "IndexError" THEN [w EXCEPT !.raised = "IndexError"]
        ELSE IF timetomove = "no" THEN w
        ELSE [w EXCEPT
                !.callbacks = mpl_connect(
                                mpl_connect(@, "motion_notify_event", o),
                                "button_release_event", o),
                !.objs[o].clickx = Some(ev.xdata),
                !.objs[o].clicky = Some(ev.ydata),
                !.objs[o].clicked = TRUE]

\* _DragObj.on_click(event) (DragObj.on_click of the first version, which
\* records no click position).
on_click(w, o, ev) ==
    LET O == w.objs[o]
        timetomove == shouldthismove(w, o, ev)
    IN  IF ev.inaxes # O.parentax THEN w
        ELSE IF timetomove = "IndexError" THEN [w EXCEPT !.raised = "IndexError"]
        ELSE IF timetomove = "no" THEN w
        ELSE [w EXCEPT
                !.callbacks = mpl_connect(
                                mpl_connect(@, "motion_notify_event", o),
                                "button_release_event", o),
                !.objs[o].clickx = IF IsLegacy(O.cls) THEN @ ELSE Some(ev.xdata),
                !.objs[o].clicky = IF IsLegacy(O.cls) THEN @ ELSE Some(ev.ydata),
                !.objs[o].clicked = TRUE]

\* A disconnect that leaves the handlers connected and only redraws.
disconnect_keep(w, o) == draw(w)

\* _DragObj.disconnect()
disconnect(w, o) ==
    draw([w EXCEPT !.callbacks = mpl_disconnect(
                                   mpl_disconnect(@, "motion_notify_event", o),
                                   "button_release_event", o)])

\* An on_release that ignores a release over another frame or over none, as
\* on_click and on_motion ignore their events.
dragobj_on_release_inframe(w, o, ev) ==
    IF ev.inaxes # w.objs[o].parentax THEN w
    ELSE draw([w EXCEPT
                 !.objs[o].clicked = FALSE,
                 !.callbacks = mpl_disconnect(
                                 mpl_disconnect(@, "motion_notify_event", o),
                                 "button_release_event", o)])

\* _DragObj.on_release(event) (and DragObj.on_release)
dragobj_on_release(w, o, ev) ==
    disconnect([w EXCEPT !.objs[o].clicked = FALSE], o)

\* _DragObj.stopdrag()
stopdrag(w, o) ==
    [w EXCEPT !.artists[w.objs[o].myobj].url = "",
              !.callbacks = mpl_disconnect(@, "button_press_event", o)]

\* -------------------------------------------------------------- on_motion

\* A snapto reference: a line series ("Line2D": get_xdata and get_ydata), an
\* object with get_xdata only ("XOnly"), one with neither ("NoData"), or None.
NoSnap == [kind |-> "None", xdata |-> <<>>, ydata |-> <<>>]

\* A _DragLine.on_motion that ignores snapto: the line follows the pointer
\* beyond the series.
dragline_on_motion_nosnap(w, o, ev) ==
    LET O == w.objs[o]
    IN  IF ~O.clicked THEN w
        ELSE IF ev.inaxes # O.parentax THEN w
        ELSE IF O.orientation = "vertical"
        THEN draw([w EXCEPT
                     !.artists[O.myobj].xdata = listmult(<<1, 1>>, ev.xdata),
                     !.artists[O.myobj].ydata = ylim[O.parentax]])
        ELSE draw([w EXCEPT
                     !.artists[O.myobj].xdata = xlim[O.parentax],
                     !.artists[O.myobj].ydata = listmult(<<1, 1>>, ev.ydata)])

\* A _DragLine.on_motion that moves the line on its free axis only and leaves
\* its fixed-axis data as it was, whatever the frame's limits are now.
dragline_on_motion_keepfixed(w, o, ev) ==
    LET O == w.objs[o]
    IN  IF ~O.clicked THEN w
        ELSE IF ev.inaxes # O.parentax THEN w
        ELSE IF O.orientation = "vertical"
        THEN draw([w EXCEPT
                     !.artists[O.myobj].xdata = listmult(<<1, 1>>, ev.xdata)])
        ELSE draw([w EXCEPT
                     !.artists[O.myobj].ydata = listmult(<<1, 1>>, ev.ydata)])

\* A _DragLine.on_motion that moves every line of the canvas along with its
\* own.
dragline_on_motion_all(w, o, ev) ==
    LET O == w.objs[o]
        Moved(a) == IF a.shape # "Line2D" THEN a
                    ELSE IF O.orientation = "vertical"
                    THEN [a EXCEPT !.xdata = listmult(<<1, 1>>, ev.xdata)]
                    ELSE [a EXCEPT !.ydata = listmult(<<1, 1>>, ev.ydata)]
    IN  IF ~O.clicked THEN w
        ELSE IF ev.inaxes # O.parentax THEN w
        ELSE draw([w EXCEPT !.artists =
                     [i \in 1..Len(w.artists) |-> Moved(w.artists[i])]])

\* _DragLine.on_motion(event)
dragline_on_motion(w, o, ev) ==
    LET O == w.objs[o]
    IN  IF ~O.clicked THEN w
        ELSE IF ev.inaxes # O.parentax THEN w
        ELSE IF O.orientation = "vertical"
        THEN LET xcoord == IF O.snapto.kind # "None"
                           THEN draglimiter(O.snapto.xdata, ev.xdata)
                           ELSE ev.xdata
             IN  draw([w EXCEPT
                         !.artists[O.myobj].xdata = listmult(<<1, 1>>, xcoord),
                         !.artists[O.myobj].ydata = ylim[O.parentax]])
        ELSE IF O.orientation = "horizontal"
        THEN IF O.snapto.kind = "XOnly"
             THEN [w EXCEPT !.raised = "AttributeError"]   \* snapto.get_ydata()
             ELSE LET ycoord == IF O.snapto.kind # "None"
                                THEN draglimiter(O.snapto.ydata, ev.ydata)
                                ELSE ev.ydata
                  IN  draw([w EXCEPT
                              !.artists[O.myobj].xdata = xlim[O.parentax],
                              !.artists[O.myobj].ydata = listmult(<<1, 1>>, ycoord)])
        ELSE draw(w)

\* DragLine.on_motion(event), first version: no snapping.
legacy_on_motion(w, o, ev) ==
    LET O == w.objs[o]
    IN  IF ~O.clicked THEN w
        ELSE IF ev.inaxes # O.parentax THEN w
        ELSE IF O.orientation = "vertical"
        THEN draw([w EXCEPT
                     !.artists[O.myobj].xdata = listmult(<<1, 1>>, ev.xdata),
                     !.artists[O.myobj].ydata = ylim[O.parentax]])
        ELSE IF O.orientation = "horizontal"
        THEN draw([w EXCEPT
                     !.artists[O.myobj].xdata = xlim[O.parentax],
                     !.artists[O.myobj].ydata = listmult(<<1, 1>>, ev.ydata)])
        ELSE draw(w)

\* artist.update({'center': newxy}) succeeds: the artist has a set_center.
HasSetCenter(a) == a.shape \in {"Ellipse", "Circle", "Arc", "Wedge"}

\* A _DragPatch.on_motion that puts the anchor under the pointer instead of
\* translating it by the pointer's displacement since the press.
dragpatch_on_motion_jump(w, o, ev) ==
    LET O == w.objs[o]
        a == w.artists[O.myobj]
        newxy == <<ev.xdata, ev.ydata>>
    IN  IF ~O.clicked THEN w
        ELSE IF ev.inaxes # O.parentax THEN w
        ELSE IF HasCenter(a)
             THEN draw([w EXCEPT !.artists[O.myobj].center = newxy])
             ELSE draw([w EXCEPT !.artists[O.myobj].xy = newxy])

\* _DragPatch.on_motion(event)
dragpatch_on_motion(w, o, ev) ==
    LET O == w.objs[o]
        a == w.artists[O.myobj]
        oldx == O.oldxy[1]
        oldy == O.oldxy[2]
        dx == ev.xdata - O.clickx[1]
        dy == ev.ydata - O.clicky[1]
        newxy == <<oldx + dx, oldy + dy>>
    IN  IF ~O.clicked THEN w
        ELSE IF ev.inaxes # O.parentax THEN w
        ELSE IF HasSetCenter(a)
             THEN draw([w EXCEPT !.artists[O.myobj].center = newxy])
        ELSE IF HasCenter(a)
             THEN draw([w EXCEPT !.artists[O.myobj].center = newxy])
             ELSE draw([w EXCEPT !.artists[O.myobj].xy = newxy])

\* A FixedWindow.on_motion that applies the pointer's displacement on both
\* axes, as _DragPatch.on_motion does.
fixedwindow_on_motion_bothaxes(w, o, ev) ==
    LET O == w.objs[o]
    IN  IF ~O.clicked THEN w
        ELSE IF ev.inaxes # O.parentax THEN w
        ELSE draw([w EXCEPT !.artists[O.myobj].xy =
                                <<O.oldxy[1] + (ev.xdata - O.clickx[1]),
                                  O.oldxy[2] + (ev.ydata - O.clicky[1])>>])

\* FixedWindow.on_motion(event)
fixedwindow_on_motion(w, o, ev) ==
    LET O == w.objs[o]
        oldx == O.oldxy[1]
        oldy == O.oldxy[2]
    IN  IF ~O.clicked THEN w
        ELSE IF ev.inaxes # O.parentax THEN w
        ELSE IF O.orientation = "horizontal"
        THEN draw([w EXCEPT !.artists[O.myobj].xy =
                                <<oldx, oldy + (ev.ydata - O.clicky[1])>>])
        ELSE draw([w EXCEPT !.artists[O.myobj].xy =
                                <<oldx + (ev.xdata - O.clickx[1]), oldy>>])

\* A _DragPatch.on_release that keeps the anchor of the drag that ends.
dragpatch_on_release_stale(w, o, ev) ==
    draw([w EXCEPT
            !.objs[o].clicked = FALSE,
            !.callbacks = mpl_disconnect(
                            mpl_disconnect(@, "motion_notify_event", o),
                            "button_release_event", o)])

\* _DragPatch.on_release(event)
dragpatch_on_release(w, o, ev) ==
    LET a == w.artists[w.objs[o].myobj]
    IN  disconnect([w EXCEPT
                      !.objs[o].clicked = FALSE,
                      !.objs[o].oldxy = IF HasCenter(a) THEN a.center ELSE a.xy],
                   o)

\* The method each class resolves on_motion / on_release to.
on_motion(w, o, ev) ==
    CASE w.objs[o].cls = "DragLine2D"  -> dragline_on_motion(w, o, ev)
      [] w.objs[o].cls = "DragLine"    -> legacy_on_motion(w, o, ev)
      [] w.objs[o].cls = "FixedWindow" -> fixedwindow_on_motion(w, o, ev)
      [] OTHER                         -> dragpatch_on_motion(w, o, ev)

on_release(w, o, ev) ==
    IF IsLine(w.objs[o].cls) THEN dragobj_on_release(w, o, ev)
    ELSE dragpatch_on_release(w, o, ev)

\* The canvas processes one event: every handler connected to the signal when
\* the event arrives is called, in connection order.
RECURSIVE Process(_, _, _, _)
Process(w, signal, hs, ev) ==
    IF hs = <<>> THEN w
    ELSE LET o == Head(hs)
             w2 == CASE signal = "button_press_event" -> on_click(w, o, ev)
                     [] signal = "motion_notify_event" -> on_motion(w, o, ev)
                     [] OTHER -> on_release(w, o, ev)
         IN  Process(w2, signal, Tail(hs), ev)

Deliver(w, signal, ev) == Process(w, signal, Handlers(w.callbacks, signal), ev)

\* ------------------------------------------------------------ constructors

\* A constructor call: the class and its arguments.  x, y are the position
\* (position or primaryedge in x for lines and windows), w, h the size
\* (windowsize / windowstartsize / radius in w).
Call(cls, ax, x, y, w, h, orientation, snapto) ==
    [cls |-> cls, ax |-> ax, x |-> x, y |-> y, w |-> w, h |-> h,
     orientation |-> orientation, snapto |-> snapto]

NewObj(cls, ax, myobj, oldxy, orientation) ==
    [cls |-> cls, parentax |-> ax, myobj |-> myobj, clicked |-> FALSE,
     clickx |-> None, clicky |-> None, oldxy |-> oldxy,
     orientation |-> orientation, snapto |-> NoSnap]

\* The snapto check of DragLine2D.__init__ and FixedWindow.__init__: a
\* reference without get_xdata is dropped (with a warning).
checked_snapto(snapto) ==
    IF snapto.kind \in {"Line2D", "XOnly"} THEN snapto ELSE NoSnap

\* _DragObj.__init__(ax) for the wrapper that becomes object Len(objs) + 1,
\* around the artist added last.
dragobj_init(w, obj) ==
    LET o == Len(w.objs) + 1
    IN  [w EXCEPT !.artists[obj.myobj].url = "dragobj",
                  !.objs = Append(@, obj),
                  !.callbacks = mpl_connect(@, "button_press_event", o)]

\* DragLine2D.__init__(ax, position, orientation, snapto)
DragLine2D(w, c) ==
    LET orientation == Lower(c.orientation)
        line == IF orientation = "horizontal"
                THEN Line2D(xlim[c.ax], listmult(<<1, 1>>, c.x))
                ELSE Line2D(listmult(<<1, 1>>, c.x), ylim[c.ax])
        w2 == add_artist(w, c.ax, line)
        obj == NewObj("DragLine2D", c.ax, Len(w2.artists), None, orientation)
    IN  IF orientation \notin {"horizontal", "vertical"}
        THEN [w EXCEPT !.raised = "ValueError"]
        ELSE dragobj_init(w2, [obj EXCEPT !.snapto = checked_snapto(c.snapto)])

\* DragLine.__init__(orientation, ax, position), first version: an unknown
\* orientation falls through ("throw an error": pass) to DragObj.__init__,
\* which fails on the missing self.myobj before it connects anything.
DragLine(w, c) ==
    LET orientation == Lower(c.orientation)
        line == IF orientation = "horizontal"
                THEN Line2D(xlim[c.ax], listmult(<<1, 1>>, c.x))
                ELSE Line2D(listmult(<<1, 1>>, c.x), ylim[c.ax])
        w2 == add_artist(w, c.ax, line)
        obj == NewObj("DragLine", c.ax, Len(w2.artists), None, orientation)
    IN  IF orientation \notin {"horizontal", "vertical"}
        THEN [w EXCEPT !.raised = "AttributeError"]
        ELSE dragobj_init(w2, obj)

\* _DragPatch.__init__(ax, xy) around the artist added last.
dragpatch_init(w, cls, ax, xy) ==
    dragobj_init(w, NewObj(cls, ax, Len(w.artists), xy, ""))

\* FixedWindow.__init__(ax, primaryedge, windowsize, orientation, snapto)
FixedWindow(w, c) ==
    LET orientation == Lower(c.orientation)
        extent == axesextent(xlim[c.ax], ylim[c.ax])
        axesdimension == IF orientation = "vertical" THEN extent[2] ELSE extent[1]
        xy == IF orientation = "vertical" THEN <<c.x, ylim[c.ax][1]>>
              ELSE <<xlim[c.ax][1], c.x>>
        w2 == add_artist(w, c.ax, Rectangle(xy, c.w, axesdimension))
        obj == NewObj("FixedWindow", c.ax, Len(w2.artists), xy, orientation)
    IN  IF orientation \notin {"horizontal", "vertical"}
        THEN [w EXCEPT !.raised = "ValueError"]
        ELSE dragobj_init(w2, [obj EXCEPT !.snapto = checked_snapto(c.snapto)])

\* Window.__init__(ax, primaryedge, windowstartsize, orientation, snapto)
Window(w, c) ==
    LET w1 == DragLine2D(w, c)
        w2 == DragLine2D(w1, [c EXCEPT !.x = c.x + c.w])
        edges == <<Len(w.objs) + 1, Len(w.objs) + 2>>
        d == spanpatchdims(w2, edges[1], edges[2])
        w3 == add_artist(w2, c.ax, Rectangle(d[1], d[2], d[3]))
        win == [edges |-> edges, orientation |-> c.orientation,
                spanpatch |-> Len(w3.artists)]
    IN  IF w1.raised # NoErr THEN w1
        ELSE [w3 EXCEPT !.windows = Append(@, win),
                        !.callbacks = mpl_connect(@, "draw_event",
                                                  Len(w3.windows) + 1)]

\* DragEllipse.__init__(ax, xy, width, height)
DragEllipse(w, c) ==
    dragpatch_init(add_artist(w, c.ax, Ellipse(<<c.x, c.y>>, c.w, c.h)),
                   "DragEllipse", c.ax, <<c.x, c.y>>)

\* DragCircle.__init__(ax, xy, radius): super().__init__(ax, xy) is
\* DragEllipse.__init__, called without its width and height.
DragCircle(w, c) ==
    [add_artist(w, c.ax, Circle(<<c.x, c.y>>, c.w)) EXCEPT !.raised = "TypeError"]

\* DragRectangle.__init__(ax, xy, width, height)
DragRectangle(w, c) ==
    dragpatch_init(add_artist(w, c.ax, Rectangle(<<c.x, c.y>>, c.w, c.h)),
                   "DragRectangle", c.ax, <<c.x, c.y>>)

\* DragArc.__init__(ax, xy, width, height)
DragArc(w, c) ==
    dragpatch_init(add_artist(w, c.ax, Arc(<<c.x, c.y>>, c.w, c.h)),
                   "DragArc", c.ax, <<c.x, c.y>>)

\* DragWedge.__init__(ax, center, r, theta1, theta2)
DragWedge(w, c) ==
    dragpatch_init(add_artist(w, c.ax, Wedge(<<c.x, c.y>>, c.w)),
                   "DragWedge", c.ax, <<c.x, c.y>>)

\* DragRegularPolygon.__init__(ax, xy, numVertices, radius)
DragRegularPolygon(w, c) ==
    dragpatch_init(add_artist(w, c.ax, RegularPolygon(<<c.x, c.y>>, c.w)),
                   "DragRegularPolygon", c.ax, <<c.x, c.y>>)

construct(w, c) ==
    CASE c.cls = "DragLine2D"         -> DragLine2D(w, c)
      [] c.cls = "DragLine"           -> DragLine(w, c)
      [] c.cls = "FixedWindow"        -> FixedWindow(w, c)
      [] c.cls = "Window"             -> Window(w, c)
      [] c.cls = "DragEllipse"        -> DragEllipse(w, c)
      [] c.cls = "DragCircle"         -> DragCircle(w, c)
      [] c.cls = "DragRectangle"      -> DragRectangle(w, c)
      [] c.cls = "DragArc"            -> DragArc(w, c)
      [] c.cls = "DragWedge"          -> DragWedge(w, c)
      [] c.cls = "DragRegularPolygon" -> DragRegularPolygon(w, c)

\* ---------------------------------------------------------------- actions

\* An empty figure with two frames, and the program's constructor calls.  The
\* program has set the frames' limits itself (set_xlim, set_ylim), so that
\* plotting a line does not rescale a frame.
InitFigure(programs) ==
    /\ xlim = [f \in Frames |-> <<0, MaxX>>]
    /\ ylim = [f \in Frames |-> <<0, MaxY>>]
    /\ children = [f \in Frames |-> <<>>]
    /\ artists = <<>>
    /\ objs = <<>>
    /\ windows = <<>>
    /\ callbacks = <<>>
    /\ raised = NoErr
    /\ todo \in programs
    /\ limited = None

Commit(w) ==
    /\ children' = w.children
    /\ artists' = w.artists
    /\ objs' = w.objs
    /\ windows' = w.windows
    /\ callbacks' = w.callbacks
    /\ raised' = w.raised

\* A pointer event over frame f, at a point within the frame's limits.
EventsIn(f) ==
    {[inaxes |-> f, xdata |-> x, ydata |-> y] :
        x \in xlim[f][1]..xlim[f][2], y \in ylim[f][1]..ylim[f][2]}

PointerEvents == UNION {EventsIn(f) : f \in Frames}

\* A pointer event over no frame: it carries no data coordinates.
OutsideEvent == [inaxes |-> NoAxes, xdata |-> None, ydata |-> None]

\* The program makes its next constructor call.
Construct ==
    /\ todo # <<>>
    /\ Commit(construct(World, Head(todo)))
    /\ todo' = Tail(todo)
    /\ UNCHANGED <<xlim, ylim, limvars>>

\* The canvas delivers a button press, a pointer motion, a button release to
\* the handlers connected for it (with none connected, no code of the library
\* runs).
Press(ev) ==
    /\ Handlers(callbacks, "button_press_event") # <<>>
    /\ Commit(Deliver(World, "button_press_event", ev))
    /\ UNCHANGED <<xlim, ylim, todo, limvars>>

Motion(ev) ==
    /\ Handlers(callbacks, "motion_notify_event") # <<>>
    /\ Commit(Deliver(World, "motion_notify_event", ev))
    /\ UNCHANGED <<xlim, ylim, todo, limvars>>

Release(ev) ==
    /\ Handlers(callbacks, "button_release_event") # <<>>
    /\ Commit(Deliver(World, "button_release_event", ev))
    /\ UNCHANGED <<xlim, ylim, todo, limvars>>

\* The canvas redraws for a reason of its own (resize, expose, draw_idle).
Redraw ==
    /\ Commit(draw(World))
    /\ UNCHANGED <<xlim, ylim, todo, limvars>>

\* The program calls obj.stopdrag().
StopDrag(o) ==
    /\ ~IsLegacy(objs[o].cls)
    /\ Commit(stopdrag(World, o))
    /\ UNCHANGED <<xlim, ylim, todo, limvars>>

Next ==
    \/ Construct
    \/ \E ev \in PointerEvents : Press(ev)
    \/ Press(OutsideEvent)
    \/ \E ev \in PointerEvents : Motion(ev)
    \/ Motion(OutsideEvent)
    \/ \E ev \in PointerEvents : Release(ev)
    \/ Release(OutsideEvent)
    \/ Redraw
    \/ \E o \in 1..Len(objs) : StopDrag(o)

\* --------------------------------------------------------------- programs

\* Line series: x in [1, 2], x in [0, 1] (y in [1, 1] for both).
SeriesHigh == [kind |-> "Line2D", xdata |-> <<2, 1, 2>>, ydata |-> <<1, 1>>]

SeriesLow == [kind |-> "Line2D", xdata |-> <<0, 1>>, ydata |-> <<1, 1>>]

\* One draggable of each kind, alone in frame 1: a patch of either anchor
\* kind, a fixed window, lines snapped to a series.
Programs ==
    { << Call("DragRectangle", 1, 0, 0, 1, 1, "", NoSnap) >>,
      << Call("DragEllipse", 1, 1, 1, 2, 0, "", NoSnap) >>,
      << Call("FixedWindow", 1, 0, 0, 1, 0, "vertical", NoSnap) >>,
      << Call("DragLine2D", 1, 1, 0, 0, 0, "vertical", SeriesHigh) >>,
      << Call("DragLine2D", 1, 1, 0, 0, 0, "vertical", SeriesLow) >>,
      << Call("DragLine2D", 1, 0, 0, 0, 0, "horizontal", SeriesHigh) >> }

NoLimiter == dataseries = <<0>> /\ querypoint = 0

Init == InitFigure(Programs) /\ NoLimiter

Spec == Init /\ [][Next]_vars

\* Two lines stacked in one frame; one line in each frame.
StackPrograms ==
    { << Call("DragLine2D", 1, 1, 0, 0, 0, "vertical", NoSnap),
         Call("DragLine2D", 1, 1, 0, 0, 0, "Vertical", NoSnap) >>,
      << Call("DragLine2D", 1, 1, 0, 0, 0, "horizontal", NoSnap),
         Call("DragLine", 2, 1, 0, 0, 0, "vertical", NoSnap) >> }

InitStack == InitFigure(StackPrograms) /\ NoLimiter

SpecStack == InitStack /\ [][Next]_vars

\* Windows of either orientation, and a line followed by constructor calls
\* with an orientation no class supports.
WindowPrograms ==
    { << Call("Window", 1, 0, 0, 1, 0, "vertical", NoSnap) >>,
      << Call("Window", 1, 0, 0, 1, 0, "HORIZONTAL", NoSnap) >>,
      << Call("DragLine2D", 1, 1, 0, 0, 0, "horizontal", NoSnap),
         Call("DragLine2D", 1, 1, 0, 0, 0, "diagonal", NoSnap),
         Call("FixedWindow", 1, 0, 0, 1, 0, "diagonal", NoSnap),
         Call("Window", 1, 0, 0, 1, 0, "diagonal", NoSnap),
         Call("DragLine", 1, 1, 0, 0, 0, "diagonal", NoSnap) >> }

InitWindow == InitFigure(WindowPrograms) /\ NoLimiter

SpecWindow == InitWindow /\ [][Next]_vars

\* draglimiter on its own: inputs drawn from bounded sets, applied once.
SeriesOfLen(n) == [1..n -> 0..MaxVal]

InitLimiter ==
    /\ InitFigure({<<>>})
    /\ dataseries \in UNION {SeriesOfLen(n) : n \in 1..MaxLen}
    /\ querypoint \in -1..(MaxVal + 1)

Limit ==
    /\ limited = None
    /\ limited' = Some(draglimiter(dataseries, querypoint))
    /\ UNCHANGED <<xlim, ylim, children, artists, objs, windows, callbacks,
                   raised, todo, dataseries, querypoint>>

NextLimiter == Limit

SpecLimiter == InitLimiter /\ [][NextLimiter]_vars

\* Fixed windows of size 1 at primary edge 0, of either orientation.
FixedPrograms ==
    { << Call("FixedWindow", 1, 0, 0, 1, 0, "vertical", NoSnap) >>,
      << Call("FixedWindow", 1, 0, 0, 1, 0, "Vertical", NoSnap) >>,
      << Call("FixedWindow", 1, 0, 0, 1, 0, "horizontal", NoSnap) >> }

InitFixed == InitFigure(FixedPrograms) /\ NoLimiter

SpecFixed == InitFixed /\ [][Next]_vars

\* The limits a program gives a frame: ax.set_xlim, ax.set_ylim.
XLims == {<<0, MaxX>>, <<1, MaxX>>}

YLims == {<<0, MaxY>>, <<0, MaxY + 1>>}

\* The program changes the limits of frame f.
SetLim(f, xl, yl) ==
    /\ xlim' = [xlim EXCEPT ![f] = xl]
    /\ ylim' = [ylim EXCEPT ![f] = yl]
    /\ UNCHANGED <<children, artists, objs, windows, callbacks, raised, todo,
                   limvars>>

\* One unsnapped line of either orientation, in a frame whose limits change.
LimitsPrograms ==
    { << Call("DragLine2D", 1, 1, 0, 0, 0, "vertical", NoSnap) >>,
      << Call("DragLine2D", 1, 1, 0, 0, 0, "horizontal", NoSnap) >> }

InitLimits == InitFigure(LimitsPrograms) /\ NoLimiter

NextLimits ==
    \/ Next
    \/ \E xl \in XLims, yl \in YLims : SetLim(1, xl, yl)

SpecLimits == InitLimits /\ [][NextLimits]_vars

\* One patch of each shape class, alone in frame 1.
ShapePrograms ==
    { << Call("DragEllipse", 1, 1, 0, 2, 2, "", NoSnap) >>,
      << Call("DragCircle", 1, 1, 0, 1, 0, "", NoSnap) >>,
      << Call("DragRectangle", 1, 1, 0, 1, 1, "", NoSnap) >>,
      << Call("DragArc", 1, 1, 0, 2, 2, "", NoSnap) >>,
      << Call("DragWedge", 1, 1, 0, 1, 0, "", NoSnap) >>,
      << Call("DragRegularPolygon", 1, 1, 0, 1, 0, "", NoSnap) >> }

InitShapes == InitFigure(ShapePrograms) /\ NoLimiter

SpecShapes == InitShapes /\ [][Next]_vars

\* Snap references that are not line series: one with get_xdata only, one
\* with neither get_xdata nor get_ydata.
RefXOnly == [kind |-> "XOnly", xdata |-> <<0, 1>>, ydata |-> <<>>]

RefNoData == [kind |-> "NoData", xdata |-> <<>>, ydata |-> <<>>]

\* A line of either orientation given such a reference as snapto.
SnapPrograms ==
    { << Call("DragLine2D", 1, 1, 0, 0, 0, "vertical", RefNoData) >>,
      << Call("DragLine2D", 1, 1, 0, 0, 0, "horizontal", RefNoData) >>,
      << Call("DragLine2D", 1, 1, 0, 0, 0, "horizontal", RefXOnly) >> }

InitSnap == InitFigure(SnapPrograms) /\ NoLimiter

SpecSnap == InitSnap /\ [][Next]_vars

\* Gestures: the pointer's button goes down only when it is up.  A press
\* that selects nothing leaves the state as it was, and a release ends every
\* drag, so the button is down, as far as the state tells, exactly while some
\* draggable is clicked.
ButtonUp == \A o \in 1..Len(objs) : ~objs[o].clicked

GesturePress(ev) == ButtonUp /\ Press(ev)

\* Stacked lines, lines in two frames, and the two edges of a Window.
GesturePrograms ==
    StackPrograms \cup { << Call("Window", 1, 0, 0, 1, 0, "vertical", NoSnap) >> }

InitGesture == InitFigure(GesturePrograms) /\ NoLimiter

NextGesture ==
    \/ Construct
    \/ \E ev \in PointerEvents : GesturePress(ev)
    \/ GesturePress(OutsideEvent)
    \/ \E ev \in PointerEvents : Motion(ev)
    \/ Motion(OutsideEvent)
    \/ \E ev \in PointerEvents : Release(ev)
    \/ Release(OutsideEvent)
    \/ Redraw
    \/ \E o \in 1..Len(objs) : StopDrag(o)

SpecGesture == InitGesture /\ [][NextGesture]_vars

\* A horizontal Window alone in frame 1: two edges and the span over them.
SpanPrograms == { << Call("Window", 1, 0, 0, 1, 0, "horizontal", NoSnap) >> }

InitSpan == InitFigure(SpanPrograms) /\ NoLimiter

SpecSpan == InitSpan /\ [][Next]_vars

\* ----------------------------------------------------------------- claims

Objs == 1..Len(objs)

Tagged(w, a) == w.artists[a].url = "dragobj"

\* Where a patch is: its center if it has one, else its corner xy.
Position(a) == IF HasCenter(a) THEN a.center ELSE a.xy

\* The tagged artists of frame f that contain the event, in child order.
Candidates(f, ev) ==
    LET Hit(c) == Tagged(World, c) /\ contains(artists[c], ev)
    IN  SelectSeq(children[f], Hit)

\* The handlers of o connected in world w: <<press, motion, release>>.
Registrations(w, o) ==
    << Connected(w.callbacks, "button_press_event", o),
       Connected(w.callbacks, "motion_notify_event", o),
       Connected(w.callbacks, "button_release_event", o) >>

\* The state after the canvas has delivered the event to the current state.
AfterPress(ev) == Deliver(World, "button_press_event", ev)

AfterMotion(ev) == Deliver(World, "motion_notify_event", ev)

AfterRelease(ev) == Deliver(World, "button_release_event", ev)

\* C1.  Hit-test tie-break: in every reachable state, for every press inside
\* a frame, after all press handlers have run the only draggable whose clicked
\* flag has turned true is the one wrapping the last of the frame's tagged
\* artists containing the point (in child order), and it is clicked with its
\* motion and release handlers connected; every other draggable is unchanged
\* and keeps its registrations; so with no such artist no drag starts.
TieBreakSelectsTopmost ==
    \A ev \in PointerEvents :
        LET C == Candidates(ev.inaxes, ev)
            w == AfterPress(ev)
        IN  \A o \in Objs :
              IF C # <<>> /\ C[Len(C)] = objs[o].myobj
              THEN /\ w.objs[o].clicked
                   /\ Registrations(w, o)[2] /\ Registrations(w, o)[3]
              ELSE /\ w.objs[o] = objs[o]
                   /\ Registrations(w, o) = Registrations(World, o)

\* C1 witness: two tagged artists of one frame both contain the point of the
\* last press; the wrapper of the later child is clicked, the other is not.
TieBreakWitness ==
    \E o1, o2 \in Objs :
        /\ objs[o1].parentax = objs[o2].parentax
        /\ objs[o1].myobj < objs[o2].myobj
        /\ Tagged(World, objs[o1].myobj) /\ Tagged(World, objs[o2].myobj)
        /\ objs[o2].clicked /\ ~objs[o1].clicked
        /\ LET ev == [inaxes |-> objs[o2].parentax,
                      xdata |-> objs[o2].clickx[1], ydata |-> objs[o2].clicky[1]]
           IN  /\ contains(artists[objs[o1].myobj], ev)
               /\ contains(artists[objs[o2].myobj], ev)

IsPatch(o) == objs[o].cls \notin {"DragLine2D", "DragLine", "FixedWindow"}

\* C2.  Delta-based patch motion: in every reachable state, for every motion
\* event inside its frame, a clicked patch is afterwards at
\* anchor + (pointer - press pointer) on both axes, whatever the anchor is.
PatchMovesByDelta ==
    \A ev \in PointerEvents : \A o \in Objs :
        (IsPatch(o) /\ objs[o].clicked /\ ev.inaxes = objs[o].parentax)
        => Position(AfterMotion(ev).artists[objs[o].myobj])
             = << objs[o].oldxy[1] + (ev.xdata - objs[o].clickx[1]),
                  objs[o].oldxy[2] + (ev.ydata - objs[o].clicky[1]) >>

\* C2 witness: a clicked patch, grabbed away from where it was constructed
\* (the programs construct their patches with x + y <= 2), dragged off its
\* anchor on both axes.
PatchMovesByDeltaWitness ==
    \E o \in Objs :
        /\ IsPatch(o) /\ objs[o].clicked
        /\ objs[o].oldxy[1] + objs[o].oldxy[2] > 2
        /\ Position(artists[objs[o].myobj])[1] # objs[o].oldxy[1]
        /\ Position(artists[objs[o].myobj])[2] # objs[o].oldxy[2]


\* The least and the greatest value of a series.
Least(data) ==
    CHOOSE v \in {data[i] : i \in 1..Len(data)} :
        \A i \in 1..Len(data) : v <= data[i]

Greatest(data) ==
    CHOOSE v \in {data[i] : i \in 1..Len(data)} :
        \A i \in 1..Len(data) : v >= data[i]

\* q clamped to [m, M].
Clamped(q, m, M) == IF q < m THEN m ELSE IF q > M THEN M ELSE q

\* The span of window win in world w covers exactly its two edges on the
\* orientation axis.
SpanCovers(w, win) ==
    LET W == w.windows[win]
        sp == w.artists[W.spanpatch]
        e1 == w.artists[w.objs[W.edges[1]].myobj]
        e2 == w.artists[w.objs[W.edges[2]].myobj]
    IN  IF Lower(W.orientation) = "vertical"
        THEN /\ sp.xy[1] = Least(e1.xdata \o e2.xdata)
             /\ sp.xy[1] + sp.width = Greatest(e1.xdata \o e2.xdata)
        ELSE /\ sp.xy[2] = Least(e1.ydata \o e2.ydata)
             /\ sp.xy[2] + sp.height = Greatest(e1.ydata \o e2.ydata)

\* C3.  Window span invariant: in every reachable state, and again after a
\* redraw notification, the span's low and high bounds on the orientation
\* axis are the least and the greatest of both edges' data on that axis,
\* whichever edge is ahead of the other.
SpanCoversEdges ==
    \A win \in 1..Len(windows) :
        SpanCovers(World, win) /\ SpanCovers(draw(World), win)

\* C3 witness: a vertical window built at 0 with size 1 whose first edge has
\* been dragged to 2, past the second edge at 1: the span runs from 1 to 2.
SpanCoversEdgesWitness ==
    \E win \in 1..Len(windows) :
        LET W == windows[win]
            sp == artists[W.spanpatch]
        IN  /\ W.orientation = "vertical"
            /\ artists[objs[W.edges[1]].myobj].xdata = <<2, 2>>
            /\ artists[objs[W.edges[2]].myobj].xdata = <<1, 1>>
            /\ sp.xy[1] = 1 /\ sp.width = 1

IsSnappedLine(o) == objs[o].cls = "DragLine2D" /\ objs[o].snapto.kind # "None"

\* C4.  Snapped line drag: in every reachable state, for every motion event
\* inside its frame, a clicked line with a snapto series has afterwards both
\* its free-axis coordinates equal to the pointer coordinate clamped to
\* [m, M], the least and greatest of the series' data on that axis.
SnappedLineIsClamped ==
    \A ev \in PointerEvents : \A o \in Objs :
        (IsSnappedLine(o) /\ objs[o].clicked /\ ev.inaxes = objs[o].parentax)
        => LET a == AfterMotion(ev).artists[objs[o].myobj]
               vertical == objs[o].orientation = "vertical"
               data == IF vertical THEN objs[o].snapto.xdata
                       ELSE objs[o].snapto.ydata
               q == IF vertical THEN ev.xdata ELSE ev.ydata
               c == Clamped(q, Least(data), Greatest(data))
           IN  /\ (IF vertical THEN a.xdata ELSE a.ydata) = <<c, c>>
               /\ Least(data) <= c /\ c <= Greatest(data)

\* C4 witness: the vertical line built at 1 and snapped to the series with
\* x in [1, 2] has been dragged to the series' upper end, and is still held.
SnappedLineIsClampedWitness ==
    \E o \in Objs :
        /\ IsSnappedLine(o) /\ objs[o].clicked
        /\ objs[o].snapto = SeriesHigh
        /\ objs[o].orientation = "vertical"
        /\ artists[objs[o].myobj].xdata = <<2, 2>>

\* C5.  Clamping law of draglimiter: for a non-empty series with least value
\* m and greatest M and a query q, the result is q if m <= q <= M, M if
\* q > M, m if q < m, and always lies in [m, M].
LimiterClamps ==
    limited # None =>
        LET m == Least(dataseries)
            M == Greatest(dataseries)
            r == limited[1]
        IN  /\ (m <= querypoint /\ querypoint <= M) => r = querypoint
            /\ querypoint > M => r = M
            /\ querypoint < m => r = m
            /\ m <= r /\ r <= M

\* C5 witness: a query below the least value of a series that is not
\* constant has been limited to that least value.
LimiterClampsWitness ==
    /\ limited # None
    /\ Least(dataseries) < Greatest(dataseries)
    /\ querypoint < Least(dataseries)
    /\ limited[1] = Least(dataseries)

\* Object o is in world w what it is in the current state: flags, anchor and
\* click data, handler registrations, and its artist.
Untouched(w, o) ==
    /\ w.objs[o] = objs[o]
    /\ w.artists[objs[o].myobj] = artists[objs[o].myobj]
    /\ Registrations(w, o) = Registrations(World, o)

\* C6.  Out-of-frame press and motion are no-ops: in every reachable state,
\* a press or motion event over another frame, or over no frame, leaves
\* every draggable (clicked or not) with its clicked flag, registrations,
\* anchor and artist position unchanged.
OutOfFrameIsNoOp ==
    /\ \A ev \in PointerEvents : \A o \in Objs :
         ev.inaxes # objs[o].parentax
           => Untouched(AfterPress(ev), o) /\ Untouched(AfterMotion(ev), o)
    /\ \A o \in Objs :
         Untouched(AfterPress(OutsideEvent), o)
           /\ Untouched(AfterMotion(OutsideEvent), o)

\* C6 witness: a fixed window is held, dragged off its anchor; a motion
\* event over the other frame would be delivered to its motion handler.
OutOfFrameIsNoOpWitness ==
    \E o \in Objs :
        /\ objs[o].cls = "FixedWindow" /\ objs[o].clicked
        /\ Registrations(World, o)[2]
        /\ artists[objs[o].myobj].xy # objs[o].oldxy
        /\ \E ev \in PointerEvents : ev.inaxes # objs[o].parentax

\* C7.  Handler-registration ordering: in every reachable state a draggable
\* has its motion handler, and its release handler, connected exactly while
\* it is clicked, that is from a qualifying press to the following release.
HandlersOnlyWhileClicked ==
    \A o \in Objs :
        /\ Registrations(World, o)[2] = objs[o].clicked
        /\ Registrations(World, o)[3] = objs[o].clicked

\* C7 witness: a draggable that has been pressed and released: it has a
\* recorded click position, is not clicked, and has neither handler.
HandlersOnlyWhileClickedWitness ==
    \E o \in Objs :
        /\ objs[o].clickx # None /\ ~objs[o].clicked
        /\ ~Registrations(World, o)[2] /\ ~Registrations(World, o)[3]

\* What a later event may do to a detached object o: nothing to its artist,
\* and it does not turn clicked.
StaysPut(w, o) ==
    /\ w.objs[o].clicked => objs[o].clicked
    /\ w.artists[objs[o].myobj] = artists[objs[o].myobj]

\* C8.  Detach is permanent: once stopdrag has been called (the tag is ""),
\* the press handler is disconnected, and no press, motion or release
\* event turns the clicked flag true or changes the artist's position.
DetachIsPermanent ==
    \A o \in Objs :
        artists[objs[o].myobj].url = ""
        => /\ ~Registrations(World, o)[1]
           /\ \A ev \in PointerEvents :
                /\ StaysPut(AfterPress(ev), o)
                /\ StaysPut(AfterMotion(ev), o)
                /\ StaysPut(AfterRelease(ev), o)

IsOriented(cls) == cls \in {"DragLine2D", "DragLine", "FixedWindow", "Window"}

\* C9.  Invalid orientation fails cleanly: whenever the next constructor
\* call is for a line, a FixedWindow or a Window with an orientation that is
\* not (case-insensitively) horizontal or vertical, the call raises the
\* invalid-argument error (ValueError) and leaves the frames' children, the
\* artists, the objects and the canvas' callbacks as they were.
InvalidOrientationFailsCleanly ==
    (/\ todo # <<>>
     /\ IsOriented(Head(todo).cls)
     /\ Lower(Head(todo).orientation) \notin {"horizontal", "vertical"})
    => LET w == construct(World, Head(todo))
       IN  /\ w.raised = "ValueError"
           /\ w.children = children /\ w.artists = artists
           /\ w.objs = objs /\ w.windows = windows
           /\ w.callbacks = callbacks

\* C10.  Window.bounds: for every constructed Window, bounds is the pair
\* (span origin, span origin + span size) on x for a vertical window and on
\* y for a horizontal one, the orientation read as the constructor accepted
\* it (case-insensitively); it is never None.
WindowBoundsIsSpanExtent ==
    \A win \in 1..Len(windows) :
        LET sp == artists[windows[win].spanpatch]
        IN  window_bounds(World, win) =
              IF Lower(windows[win].orientation) = "vertical"
              THEN Some(<<sp.xy[1], sp.xy[1] + sp.width>>)
              ELSE Some(<<sp.xy[2], sp.xy[2] + sp.height>>)

\* The size a fixed window was constructed with (every program of the model
\* constructs its fixed windows with windowsize 1).
WindowSize == 1

IsFixedWindow(o) == objs[o].cls = "FixedWindow"

\* C11.  FixedWindow.bounds: for every fixed window, of either orientation,
\* bounds is (c, c + w) with c the window's current coordinate on its
\* constrained axis (x for vertical, y for horizontal) and w the window size
\* it was constructed with; so bounds[2] - bounds[1] = w after any drags.
FixedWindowBoundsIsExtent ==
    \A o \in Objs :
        IsFixedWindow(o) =>
            LET a == artists[objs[o].myobj]
                c == IF objs[o].orientation = "vertical" THEN a.xy[1]
                     ELSE a.xy[2]
            IN  fixedwindow_bounds(World, o) = Some(<<c, c + WindowSize>>)

\* C12.  FixedWindow one-axis motion: in every reachable state, for every
\* in-frame motion event, a clicked fixed window is afterwards at its anchor
\* plus the pointer's displacement since the press on its constrained axis,
\* and on the other axis where it was at press time (its anchor) and where it
\* is now.
FixedWindowMovesOnOneAxis ==
    \A ev \in PointerEvents : \A o \in Objs :
        (IsFixedWindow(o) /\ objs[o].clicked /\ ev.inaxes = objs[o].parentax)
        => LET xy == AfterMotion(ev).artists[objs[o].myobj].xy
               now == artists[objs[o].myobj].xy
           IN  IF objs[o].orientation = "vertical"
               THEN /\ xy[1] = objs[o].oldxy[1] + (ev.xdata - objs[o].clickx[1])
                    /\ xy[2] = objs[o].oldxy[2] /\ xy[2] = now[2]
               ELSE /\ xy[2] = objs[o].oldxy[2] + (ev.ydata - objs[o].clicky[1])
                    /\ xy[1] = objs[o].oldxy[1] /\ xy[1] = now[1]

\* C12 witness: a horizontal fixed window is held, pressed at one point and
\* dragged up and across to another column: it has moved in y only.
FixedWindowMovesOnOneAxisWitness ==
    \E o \in Objs :
        /\ IsFixedWindow(o) /\ objs[o].clicked
        /\ objs[o].orientation = "horizontal"
        /\ artists[objs[o].myobj].xy[2] # objs[o].oldxy[2]
        /\ artists[objs[o].myobj].xy[1] = objs[o].oldxy[1]

\* C13.  Line construction round-trip: whenever the next constructor call is
\* a DragLine2D with a supported orientation at position p, reading back the
\* constructed line gives <<p, p>> on its free axis (xdata for vertical,
\* ydata for horizontal) and the frame's current limits on the other; and
\* after every motion update applied to a clicked line its fixed-axis data
\* are the frame's current limits on that axis.
LineRoundTrip ==
    /\ (/\ todo # <<>>
        /\ Head(todo).cls = "DragLine2D"
        /\ Lower(Head(todo).orientation) \in {"horizontal", "vertical"})
       => LET c == Head(todo)
              w == construct(World, c)
              o == Len(w.objs)
          IN  IF Lower(c.orientation) = "vertical"
              THEN xdata(w, o) = <<c.x, c.x>> /\ ydata(w, o) = ylim[c.ax]
              ELSE ydata(w, o) = <<c.x, c.x>> /\ xdata(w, o) = xlim[c.ax]
    /\ \A ev \in PointerEvents : \A o \in Objs :
         (/\ objs[o].cls = "DragLine2D" /\ objs[o].clicked
          /\ ev.inaxes = objs[o].parentax)
         => LET w == AfterMotion(ev)
            IN  IF objs[o].orientation = "vertical"
                THEN ydata(w, o) = ylim[objs[o].parentax]
                ELSE xdata(w, o) = xlim[objs[o].parentax]

\* C13 witness: a vertical line, held and dragged away from where it was
\* built, spans y-limits that are not those the frame had at the start.
LineRoundTripWitness ==
    \E o \in Objs :
        /\ objs[o].cls = "DragLine2D" /\ objs[o].clicked
        /\ objs[o].orientation = "vertical"
        /\ xdata(World, o) = <<2, 2>>
        /\ ydata(World, o) = ylim[objs[o].parentax]
        /\ ylim[objs[o].parentax] # <<0, MaxY>>

ShapeClasses ==
    {"DragEllipse", "DragCircle", "DragRectangle", "DragArc", "DragWedge",
     "DragRegularPolygon"}

\* C14.  Every concrete shape kind attaches: whenever the next constructor
\* call is for an Ellipse, Circle, Rectangle, Arc, Wedge or RegularPolygon
\* draggable, the call completes without error and leaves one more wrapper,
\* idle and attached: its artist is the frame's new child and is tagged, its
\* press handler (and no motion or release handler) is connected, clicked is
\* false and the anchor is the construction position.
EveryShapeAttaches ==
    (todo # <<>> /\ Head(todo).cls \in ShapeClasses)
    => LET c == Head(todo)
           w == construct(World, c)
           o == Len(w.objs)
           a == Len(w.artists)
       IN  /\ w.raised = NoErr
           /\ Len(w.objs) = Len(objs) + 1
           /\ Len(w.artists) = Len(artists) + 1
           /\ w.objs[o].myobj = a /\ w.objs[o].parentax = c.ax
           /\ w.children[c.ax] = Append(children[c.ax], a)
           /\ Tagged(w, a)
           /\ Registrations(w, o) = <<TRUE, FALSE, FALSE>>
           /\ ~w.objs[o].clicked
           /\ w.objs[o].oldxy = <<c.x, c.y>>
           /\ Position(w.artists[a]) = <<c.x, c.y>>

\* What a release event ev does to each draggable: a clicked one is no longer
\* clicked and has lost its motion and release handlers, its artist is where
\* it was, and a patch's anchor is that position; one that is not clicked is
\* untouched.
ReleaseEnds(ev) ==
    LET w == AfterRelease(ev)
    IN  \A o \in Objs :
          IF objs[o].clicked
          THEN /\ ~w.objs[o].clicked
               /\ Registrations(w, o)
                    = <<Registrations(World, o)[1], FALSE, FALSE>>
               /\ w.artists[objs[o].myobj] = artists[objs[o].myobj]
               /\ w.objs[o].oldxy =
                    IF IsLine(objs[o].cls) THEN objs[o].oldxy
                    ELSE Position(artists[objs[o].myobj])
          ELSE Untouched(w, o)

\* C15, as amended.  A release ends the drag wherever the pointer is: in
\* every reachable state, a release event over the owning frame, another
\* frame or no frame sets a clicked draggable's flag to false, disconnects
\* its motion and release handlers, re-reads a patch's anchor from the
\* shape's position and leaves the artifact where it is; a draggable that is
\* not clicked is left unchanged.
ReleaseEndsDragAnywhere ==
    /\ \A ev \in PointerEvents : ReleaseEnds(ev)
    /\ ReleaseEnds(OutsideEvent)

\* C15 witness: a patch is held and has been dragged off its anchor, so that
\* a release, over any frame, re-reads the anchor and ends the drag.
ReleaseEndsDragAnywhereWitness ==
    \E o \in Objs :
        /\ IsPatch(o) /\ objs[o].clicked
        /\ Registrations(World, o) = <<TRUE, TRUE, TRUE>>
        /\ Position(artists[objs[o].myobj]) # objs[o].oldxy
        /\ \E ev \in PointerEvents : ev.inaxes # objs[o].parentax

\* C15, as stated.  No-op release: a release event over another frame than
\* the draggable's, or over none, or while the draggable is not clicked,
\* leaves its clicked flag, registrations, anchor and artifact unchanged.
ReleaseOutsideIsNoOp ==
    /\ \A ev \in PointerEvents : \A o \in Objs :
         (ev.inaxes # objs[o].parentax \/ ~objs[o].clicked)
           => Untouched(AfterRelease(ev), o)
    /\ \A o \in Objs : Untouched(AfterRelease(OutsideEvent), o)

\* A snap reference that does not expose the data a line of this orientation
\* clamps to: x data for a vertical line, y data for a horizontal one.
LacksNeededData(snapto, orientation) ==
    \/ snapto.kind = "NoData"
    \/ orientation = "horizontal" /\ snapto.kind = "XOnly"

\* C16.  Invalid snap reference is ignored: constructing a line of either
\* orientation with a snap reference lacking the data it needs succeeds, and
\* for every later in-frame motion while it is clicked no error escapes the
\* handlers and the line's free-axis coordinates are the pointer's.
InvalidSnapIsIgnored ==
    /\ (/\ todo # <<>> /\ Head(todo).cls = "DragLine2D"
        /\ LacksNeededData(Head(todo).snapto, Lower(Head(todo).orientation)))
       => LET w == construct(World, Head(todo))
          IN  w.raised = NoErr /\ Len(w.objs) = Len(objs) + 1
    /\ \A ev \in PointerEvents : \A o \in Objs :
         (/\ objs[o].cls = "DragLine2D" /\ objs[o].clicked
          /\ ev.inaxes = objs[o].parentax
          /\ \/ objs[o].snapto.kind = "None"
             \/ LacksNeededData(objs[o].snapto, objs[o].orientation))
         => LET w == AfterMotion(ev)
            IN  /\ w.raised = NoErr
                /\ IF objs[o].orientation = "vertical"
                   THEN xdata(w, o) = <<ev.xdata, ev.xdata>>
                   ELSE ydata(w, o) = <<ev.ydata, ev.ydata>>

\* The world after a complete gesture: a press at p, a motion to q, a
\* release at q.
AfterGesture(p, q) ==
    Deliver(Deliver(AfterPress(p), "motion_notify_event", q),
            "button_release_event", q)

\* C17.  Anchor re-read on release: in every reachable state (a) an idle
\* patch has its anchor at its shape's position, (b) a release leaves a
\* clicked patch's anchor at the shape's position, and (c) a complete
\* gesture on an idle patch, a press at p that selects it, an in-frame
\* motion to q and a release, leaves the shape, and the anchor, at the
\* position it had plus (q - p), and a motion back to the press point right
\* after the press leaves it where it was (no jump).  By (a) and (c) the
\* position after any sequence of complete gestures is the construction
\* position plus the sum of the gestures' displacements.
AnchorFollowsRelease ==
    \A o \in Objs :
        (IsPatch(o) \/ IsFixedWindow(o)) =>
            LET here == Position(artists[objs[o].myobj])
                Pos(w) == Position(w.artists[objs[o].myobj])
            IN  /\ ~objs[o].clicked => objs[o].oldxy = here
                /\ \A ev \in PointerEvents :
                     objs[o].clicked =>
                        AfterRelease(ev).objs[o].oldxy = Pos(AfterRelease(ev))
                /\ \A p, q \in EventsIn(objs[o].parentax) :
                     (IsPatch(o) /\ ~objs[o].clicked
                        /\ AfterPress(p).objs[o].clicked)
                     => /\ Pos(AfterGesture(p, q))
                             = << here[1] + (q.xdata - p.xdata),
                                  here[2] + (q.ydata - p.ydata) >>
                        /\ AfterGesture(p, q).objs[o].oldxy
                             = Pos(AfterGesture(p, q))
                        /\ Pos(AfterGesture(p, p)) = here

\* C17 witness: the rectangle built at (0, 0) is idle after a gesture that
\* moved it on both axes, and its anchor is where it is now.
AnchorFollowsReleaseWitness ==
    \E o \in Objs :
        /\ objs[o].cls = "DragRectangle" /\ ~objs[o].clicked
        /\ objs[o].clickx # None
        /\ Position(artists[objs[o].myobj]) = <<1, 1>>
        /\ objs[o].oldxy = <<1, 1>>

\* The span of window win in world w is the bounding box of its two edges.
SpanIsHullOfEdges(w, win) ==
    LET W == w.windows[win]
        sp == w.artists[W.spanpatch]
        xs == xdata(w, W.edges[1]) \o xdata(w, W.edges[2])
        ys == ydata(w, W.edges[1]) \o ydata(w, W.edges[2])
    IN  /\ sp.xy = <<Least(xs), Least(ys)>>
        /\ sp.width = Greatest(xs) - Least(xs)
        /\ sp.height = Greatest(ys) - Least(ys)

\* World w differs from the current state, in its artists, at most in the
\* artist object o wraps and in spans, each the bounding box of its own
\* Window's edges.
OnlyOwnArtifact(w, o) ==
    /\ Len(w.artists) = Len(artists)
    /\ \A a \in 1..Len(artists) :
         w.artists[a] # artists[a]
           => \/ a = objs[o].myobj
              \/ \E win \in 1..Len(windows) :
                   /\ windows[win].spanpatch = a
                   /\ SpanIsHullOfEdges(w, win)

\* What the handlers of object o do with event ev.
HandlersKeepToOwn(o, ev) ==
    /\ Registrations(World, o)[1] => OnlyOwnArtifact(on_click(World, o, ev), o)
    /\ Registrations(World, o)[2] => OnlyOwnArtifact(on_motion(World, o, ev), o)
    /\ Registrations(World, o)[3] => OnlyOwnArtifact(on_release(World, o, ev), o)

\* C18.  Own-artifact-only mutation: in every reachable state, each
\* connected press, motion or release handler of a draggable, run on any
\* event, changes no artifact but the one it wraps, except that the redraw
\* it requests lets a Window set its span to the bounding box of that
\* Window's own two edges; and a redraw on its own changes spans only.
OwnArtifactOnly ==
    /\ \A o \in Objs :
         /\ \A ev \in PointerEvents : HandlersKeepToOwn(o, ev)
         /\ HandlersKeepToOwn(o, OutsideEvent)
    /\ \A a \in 1..Len(artists) :
         draw(World).artists[a] # artists[a]
           => \E win \in 1..Len(windows) :
                /\ windows[win].spanpatch = a
                /\ SpanIsHullOfEdges(draw(World), win)

\* C18 witness: the second edge of a horizontal Window is held and has been
\* dragged down onto the first edge, which has stayed where it was built;
\* the span has followed.
OwnArtifactOnlyWitness ==
    \E win \in 1..Len(windows) :
        LET W == windows[win]
        IN  /\ Lower(W.orientation) = "horizontal"
            /\ objs[W.edges[2]].clicked /\ ~objs[W.edges[1]].clicked
            /\ ydata(World, W.edges[2]) = <<0, 0>>
            /\ ydata(World, W.edges[1]) = <<0, 0>>
            /\ artists[W.spanpatch].height = 0

\* The draggables whose artist event ev, delivered as a motion, changes.
MovedBy(ev) ==
    {o \in Objs : AfterMotion(ev).artists[objs[o].myobj] # artists[objs[o].myobj]}

\* C19.  Single active drag: when every press follows the release of the
\* press before it, at most one draggable of the canvas is clicked in any
\* reachable state, a press with the button up clicks at most one, a motion
\* event moves at most one draggable, and a release leaves none clicked.
SingleActiveDrag ==
    /\ Cardinality({o \in Objs : objs[o].clicked}) <= 1
    /\ \A ev \in PointerEvents :
         /\ Cardinality(MovedBy(ev)) <= 1
         /\ ButtonUp =>
              Cardinality({o \in Objs : AfterPress(ev).objs[o].clicked}) <= 1
         /\ \A o \in Objs : ~AfterRelease(ev).objs[o].clicked
    /\ \A o \in Objs : ~AfterRelease(OutsideEvent).objs[o].clicked

\* C19 witness: the two edges of a Window lie on each other, at a place
\* neither was built at; one is clicked, the other is not.
SingleActiveDragWitness ==
    \E win \in 1..Len(windows) :
        LET W == windows[win]
        IN  /\ xdata(World, W.edges[1]) = <<2, 2>>
            /\ xdata(World, W.edges[2]) = <<2, 2>>
            /\ objs[W.edges[2]].clicked /\ ~objs[W.edges[1]].clicked

\* Artist object o wraps is tagged, contains the event, and every child of
\* its frame after it that contains the event is untagged.
TopmostTagged(o, ev) ==
    LET kids == children[objs[o].parentax]
    IN  /\ ev.inaxes = objs[o].parentax
        /\ Tagged(World, objs[o].myobj)
        /\ contains(artists[objs[o].myobj], ev)
        /\ \A i, j \in 1..Len(kids) :
             (kids[i] = objs[o].myobj /\ j > i /\ contains(artists[kids[j]], ev))
               => ~Tagged(World, kids[j])

\* C20.  Detached and untagged artifacts do not take part in the tie-break:
\* in every reachable state, a press at a point contained by a tagged
\* draggable, all artifacts above it that contain the point being untagged
\* (detached draggables, a Window's span), leaves that draggable clicked.
UntaggedDoNotCompete ==
    \A ev \in PointerEvents : \A o \in Objs :
        TopmostTagged(o, ev) => AfterPress(ev).objs[o].clicked

\* C20 witness: a Window's first edge lies on its second edge, which has
\* never been pressed and is detached; the first edge has been pressed there,
\* under the second edge and under the span, and is clicked.
UntaggedDoNotCompeteWitness ==
    \E win \in 1..Len(windows) :
        LET W == windows[win]
            e1 == objs[W.edges[1]]
            e2 == objs[W.edges[2]]
            p == [inaxes |-> e1.parentax, xdata |-> e1.clickx[1],
                  ydata |-> e1.clicky[1]]
        IN  /\ e1.clicked /\ ~e2.clicked /\ e2.clickx = None
            /\ artists[e2.myobj].url = ""
            /\ e1.myobj < e2.myobj /\ e2.myobj < W.spanpatch
            /\ contains(artists[e1.myobj], p)
            /\ contains(artists[e2.myobj], p)
            /\ contains(artists[W.spanpatch], p)

=============================================================================
